---- MODULE Spec2Model ----
(***************************************************************************)
(* Model of the checklist-driven code review helper:                       *)
(*   - the batch heuristic auditor   (scripts/aicode-review.js)            *)
(*   - the interactive reviewer      (extension.ts / out/extension.js)     *)
(*   - the fence stripping and JSON parsing done by runLLMReview           *)
(* Texts are sequences of one-character strings.                           *)
(***************************************************************************)
EXTENDS Integers, Sequences, FiniteSets, TLC

VARIABLES
    \* batch auditor
    bpc,            \* position in the script
    checklistFile,  \* ".aicodechecklist.json" at the root: "missing" | "malformed" | "ok"
    checklist,      \* the parsed document: a sequence of categories, each a sequence of item ids
    packageObj,     \* package.json as read at line 41
    repo,           \* the repository the script runs in: [root, files]
    results,        \* the results list
    hasFail,        \* the hasFail flag
    exitCode,       \* process exit code, -1 while running
    crashAt,        \* where an uncaught exception ended the run ("" if none)
    \* interactive reviewer
    ipc,            \* position in the runChecklist handler
    workspace,      \* what loadChecklist finds
    apiKey,         \* process.env.OPENAI_API_KEY
    channel,        \* lines appended to the output channel
    popups,         \* notifications shown
    fetchCount,     \* requests issued to the endpoint
    response,       \* what came back from the endpoint
    review,         \* outcome of runLLMReview
    \* fence stripping on its own
    inner,          \* the inner text
    sep,            \* what separates the fence lines from the inner text
    outcome         \* form -> outcome of the parsing step of runLLMReview

auditVars  == <<bpc, checklistFile, checklist, packageObj, repo, results, hasFail, exitCode, crashAt>>
reviewVars == <<ipc, workspace, apiKey, channel, popups, fetchCount, response, review>>
fenceVars  == <<inner, sep, outcome>>
vars       == <<auditVars, reviewVars, fenceVars>>

----------------------------------------------------------------------------
\* Bounds of the model
MaxInnerLen == 4    \* longest inner text
MaxCats     == 2    \* most categories in a checklist document
MaxItems    == 2    \* most items in a checklist document, all categories together
MaxFiles    == 1    \* most files in the repository besides the checklist file

----------------------------------------------------------------------------
\* Text helpers (JavaScript String methods)

\* the backquote character
BT == "bq"
NL == "\n"
Ws == {" ", NL}
Fence     == <<BT, BT, BT>>
FenceJson == <<BT, BT, BT, "j", "s", "o", "n">>

Tail_(s, n) == SubSeq(s, n + 1, Len(s))

\* String.prototype.startsWith
StartsWith(s, p) == Len(s) >= Len(p) /\ SubSeq(s, 1, Len(p)) = p

EndsWith(s, p) == Len(s) >= Len(p) /\ SubSeq(s, Len(s) - Len(p) + 1, Len(s)) = p

\* String.prototype.includes
Includes(s, p) == \E i \in 0..(Len(s) - Len(p)) : SubSeq(s, i + 1, i + Len(p)) = p

RECURSIVE DropLeadingWs(_)
DropLeadingWs(s) ==
    IF s # <<>> /\ Head(s) \in Ws THEN DropLeadingWs(Tail(s)) ELSE s

RECURSIVE DropTrailingWs(_)
DropTrailingWs(s) ==
    IF s # <<>> /\ s[Len(s)] \in Ws THEN DropTrailingWs(SubSeq(s, 1, Len(s) - 1)) ELSE s

\* String.prototype.trim
Trim(s) == DropTrailingWs(DropLeadingWs(s))

\* s.replace(<opening fence, whitespace run>, '') where s starts with the opening of length n
RemoveOpening(s, n) == DropLeadingWs(Tail_(s, n))

\* s.replace(<whitespace run, closing fence, end of text>, ''): the leftmost match
\* is the closing fence at the very end with the whole run of whitespace before it
RemoveClosing(s) ==
    IF EndsWith(s, Fence) THEN DropTrailingWs(SubSeq(s, 1, Len(s) - Len(Fence))) ELSE s

\* A bug to compare with: only the json-tagged fence is recognised
StripFenceJsonOnly(text) ==
    LET jsonString == Trim(text) IN
    IF StartsWith(jsonString, FenceJson)
    THEN RemoveClosing(RemoveOpening(jsonString, Len(FenceJson)))
    ELSE jsonString

\* A variant to compare with: the opening fence is removed with whatever tag follows it
TagLetters == {"j", "s", "o", "n", "c"}
RECURSIVE DropTag(_)
DropTag(s) == IF s # <<>> /\ Head(s) \in TagLetters THEN DropTag(Tail(s)) ELSE s
StripFenceAnyTag(text) ==
    LET jsonString == Trim(text) IN
    IF StartsWith(jsonString, Fence)
    THEN RemoveClosing(DropLeadingWs(DropTag(Tail_(jsonString, Len(Fence)))))
    ELSE jsonString

\* runLLMReview, the fence stripping (jsonString)
StripFence(text) ==
    LET jsonString == Trim(text) IN
    IF StartsWith(jsonString, FenceJson)
    THEN RemoveClosing(RemoveOpening(jsonString, Len(FenceJson)))
    ELSE IF StartsWith(jsonString, Fence)
         THEN RemoveClosing(RemoveOpening(jsonString, Len(Fence)))
         ELSE jsonString

----------------------------------------------------------------------------
\* JSON.parse, on the texts made of arrays, numbers and whitespace.
\* A value is represented by its canonical text (JSON.stringify of it).

Digits == {"1"}
NoParse == [ok |-> FALSE, val |-> <<>>, next |-> 0, len |-> 0]

RECURSIVE SkipWs(_, _)
SkipWs(s, i) == IF i <= Len(s) /\ s[i] \in Ws THEN SkipWs(s, i + 1) ELSE i

RECURSIVE DigitsEnd(_, _)
DigitsEnd(s, i) == IF i <= Len(s) /\ s[i] \in Digits THEN DigitsEnd(s, i + 1) ELSE i

RECURSIVE ParseValue(_, _)
RECURSIVE ParseElements(_, _, _, _)

\* a value starting at position i (whitespace already skipped); len is the
\* number of elements of an array, -1 for a value that is not an array
ParseValue(s, i) ==
    IF i > Len(s) THEN NoParse
    ELSE IF s[i] \in Digits
         THEN LET j == DigitsEnd(s, i)
              IN [ok |-> TRUE, val |-> SubSeq(s, i, j - 1), next |-> j, len |-> -1]
    ELSE IF s[i] = "["
         THEN LET k == SkipWs(s, i + 1) IN
              IF k <= Len(s) /\ s[k] = "]"
              THEN [ok |-> TRUE, val |-> <<"[", "]">>, next |-> k + 1, len |-> 0]
              ELSE ParseElements(s, k, <<"[">>, 0)
    ELSE NoParse

ParseElements(s, i, acc, n) ==
    LET v == ParseValue(s, i) IN
    IF ~v.ok THEN NoParse
    ELSE LET k == SkipWs(s, v.next) IN
         IF k > Len(s) THEN NoParse
         ELSE IF s[k] = ","
              THEN ParseElements(s, SkipWs(s, k + 1), acc \o v.val \o <<",">>, n + 1)
         ELSE IF s[k] = "]"
              THEN [ok |-> TRUE, val |-> acc \o v.val \o <<"]">>, next |-> k + 1, len |-> n + 1]
         ELSE NoParse

JSONParse(s) ==
    LET v == ParseValue(s, SkipWs(s, 1)) IN
    IF v.ok /\ SkipWs(s, v.next) > Len(s) THEN [v EXCEPT !.next = 0] ELSE NoParse

ValidJSON(s) == JSONParse(s).ok

----------------------------------------------------------------------------
\* runLLMReview, from the completion text to its result

NoReview == [kind |-> "none", prefix |-> "", text |-> <<>>, val |-> <<>>, len |-> 0,
             jsonString |-> <<>>]

\* new Error(prefix + text)
Thrown(prefix, text) == [NoReview EXCEPT !.kind = "error", !.prefix = prefix, !.text = text]

\* A bug to compare with: the diagnostic carries the stripped text
ParseErrorStripped(text, jsonString) ==
    [Thrown("Failed to parse LLM JSON: ", jsonString) EXCEPT !.jsonString = jsonString]

\* new Error('Failed to parse LLM JSON: ' + content)
ParseError(text, jsonString) ==
    [Thrown("Failed to parse LLM JSON: ", text) EXCEPT !.jsonString = jsonString]

\* the try block: strip, JSON.parse, return parsed / throw
ParseCompletion(text) ==
    LET jsonString == StripFence(text)
        parsed == JSONParse(jsonString)
    IN IF parsed.ok
       THEN [kind |-> "value", prefix |-> "", text |-> <<>>,
             val |-> parsed.val, len |-> parsed.len, jsonString |-> jsonString]
       ELSE ParseError(text, jsonString)

----------------------------------------------------------------------------
\* Inputs: texts over a small alphabet

InnerAlphabet == {"[", "]", ",", "1", " "}

RECURSIVE TextsOfLen(_, _)
TextsOfLen(A, n) ==
    IF n = 0 THEN {<<>>}
    ELSE {<<a>> \o t : a \in A, t \in TextsOfLen(A, n - 1)}

Inners == UNION {TextsOfLen(InnerAlphabet, n) : n \in 0..MaxInnerLen}

Seps == {<<>>, <<NL>>}

\* the ways a completion carries the inner text
Forms == {"json", "plain", "none", "js", "jsonc"}

Opening(form) ==
    CASE form = "json"  -> FenceJson
      [] form = "plain" -> Fence
      [] form = "js"    -> Fence \o <<"j", "s">>
      [] form = "jsonc" -> FenceJson \o <<"c">>
      [] OTHER          -> <<>>

Wrap(form, s, text) ==
    IF form = "none" THEN text
    ELSE Opening(form) \o s \o text \o s \o Fence

----------------------------------------------------------------------------
\* Idle values of the parts a specification does not run

NoPackage == [present |-> FALSE, scripts |-> {}, devDependencies |-> {}]
NoRepo    == [root |-> <<>>, files |-> {}]

AuditIdle ==
    /\ bpc = "idle" /\ checklistFile = "missing" /\ checklist = <<>>
    /\ packageObj = NoPackage /\ repo = NoRepo /\ results = <<>>
    /\ hasFail = FALSE /\ exitCode = -1 /\ crashAt = ""

ReviewIdle ==
    /\ ipc = "idle" /\ workspace = "nofolder" /\ apiKey = "undefined"
    /\ channel = <<>> /\ popups = <<>> /\ fetchCount = 0
    /\ response = [kind |-> "none", content |-> <<>>] /\ review = NoReview

FenceIdle == inner = <<>> /\ sep = <<>> /\ outcome = <<>>

----------------------------------------------------------------------------
\* Specification of the parsing step of runLLMReview alone

EmptyOutcome == [f \in {} |-> NoParse]

InitFence ==
    /\ inner \in Inners
    /\ sep \in Seps
    /\ outcome = EmptyOutcome
    /\ AuditIdle /\ ReviewIdle

\* the judge returns the inner text in the given form and runLLMReview parses it
Review(form) ==
    /\ form \notin DOMAIN outcome
    /\ outcome' = (form :> ParseCompletion(Wrap(form, sep, inner))) @@ outcome
    /\ UNCHANGED <<inner, sep, auditVars, reviewVars>>

NextFence == \E form \in Forms : Review(form)

SpecFence == InitFence /\ [][NextFence]_vars

----------------------------------------------------------------------------
\* The batch heuristic auditor (scripts/aicode-review.js)

ExitOk       == 0
ExitFail     == 1
ExitMissing  == 2
\* an uncaught exception ends a Node process with code 1
UncaughtExit == 1

KnownIds == {"test_exists", "test_checks", "sec_secrets", "read_format"}
ItemIds  == KnownIds \cup {"custom_x"}

\* documents of exactly k categories holding at most m items together
RECURSIVE Docs(_, _)
Docs(k, m) ==
    IF k = 0 THEN {<<>>}
    ELSE UNION { {<<cat>> \o d : cat \in TextsOfLen(ItemIds, n), d \in Docs(k - 1, m - n)}
                 : n \in 0..m }

Checklists == UNION {Docs(k, MaxItems) : k \in 0..MaxCats}

\* A bug to compare with: only the first category is searched
HasItemFirstCategory(doc, id) ==
    doc # <<>> /\ \E i \in DOMAIN doc[1] : doc[1][i] = id

\* checklist.categories.some(c => c.items.some(i => i.id === id))
HasItem(doc, id) ==
    \E c \in DOMAIN doc : \E i \in DOMAIN doc[c] : doc[c][i] = id

\* package.json
ScriptNames == {"lint", "test", "build"}
DepNames    == {"jest", "eslint", "prettier"}
PackageFile(state, sc, dd) == [state |-> state, scripts |-> sc, devDependencies |-> dd]
PackageFiles ==
    {PackageFile("absent", {}, {}), PackageFile("malformed", {}, {})} \cup
    {PackageFile("ok", sc, {}) : sc \in SUBSET ScriptNames} \cup
    {PackageFile("ok", {}, dd) : dd \in SUBSET DepNames}

\* fail / pass / na
Verdict(id, status, reason) == [id |-> id, status |-> status, reason |-> reason]

\* ---- paths and file texts

ToLowerCase(s) ==
    [i \in DOMAIN s |->
        CASE s[i] = "T" -> "t" [] s[i] = "M" -> "m" [] s[i] = "D" -> "d"
          [] s[i] = "R" -> "r" [] OTHER -> s[i]]

RECURSIVE LastIndexOf(_, _, _)
LastIndexOf(s, c, i) ==
    IF i = 0 THEN 0 ELSE IF s[i] = c THEN i ELSE LastIndexOf(s, c, i - 1)

BaseName(fp) == Tail_(fp, LastIndexOf(fp, "/", Len(fp)))

\* path.extname
ExtName(fp) ==
    LET base == BaseName(fp)
        dot  == LastIndexOf(base, ".", Len(base))
    IN IF dot <= 1 THEN <<>> ELSE Tail_(base, dot - 1)

\* path.join(dir, f)
Join(dir, f) == dir \o <<"/">> \o f

SkippedExts ==
    { <<".", "m", "d">>, <<".", "p", "n", "g">>, <<".", "j", "p", "g">>,
      <<".", "j", "p", "e", "g">>, <<".", "g", "i", "f">>, <<".", "i", "c", "o">>,
      <<".", "b", "i", "n">> }

NodeModules == <<"n", "o", "d", "e", "_", "m", "o", "d", "u", "l", "e", "s">>
DotGit      == <<".", "g", "i", "t">>

\* the alternatives of the pattern, lower case
Triggers ==
    { <<"a", "p", "i", "_", "k", "e", "y">>, <<"a", "p", "i", "-", "k", "e", "y">>,
      <<"a", "p", "i", "k", "e", "y">>, <<"s", "e", "c", "r", "e", "t">>,
      <<"p", "a", "s", "s", "w", "o", "r", "d">>, <<"p", "a", "s", "s", "w", "d">>,
      <<"a", "w", "s", "_", "s", "e", "c", "r", "e", "t">>,
      <<"a", "w", "s", "_", "a", "c", "c", "e", "s", "s">>,
      <<"s", "e", "c", "r", "e", "t", "_", "k", "e", "y">>,
      <<"p", "r", "i", "v", "a", "t", "e", "_", "k", "e", "y">>,
      <<"t", "o", "k", "e", "n">> }

\* the pattern with the i flag, tested on a text
PatternTest(txt) == \E t \in Triggers : Includes(ToLowerCase(txt), t)

\* the callback of walk in the sec_secrets check: does the file count as suspicious
Suspicious(fp, file) ==
    /\ ~(Includes(fp, NodeModules) \/ Includes(fp, DotGit))
    /\ ToLowerCase(ExtName(fp)) \notin SkippedExts
    /\ file.fault # "unreadable"
    /\ PatternTest(file.text)

\* ---- the repositories the script is run in

TokenText == <<"T", "o", "k", "e", "n">>

File(path, text, fault) == [path |-> path, text |-> text, fault |-> fault]

\* .aicodechecklist.json at the root; it spells the id sec_secrets when the scan runs
ChecklistEntry ==
    File(<<".", "a", "i", "c", "o", "d", "e", "c", "h", "e", "c", "k", "l", "i", "s", "t",
           ".", "j", "s", "o", "n">>,
         <<"s", "e", "c", "_", "s", "e", "c", "r", "e", "t", "s">>, "none")

FileCatalogue ==
    { File(<<"s", "r", "c", "/", "k", ".", "j", "s">>, TokenText, "none"),
      File(<<".", "g", "i", "t", "i", "g", "n", "o", "r", "e">>, TokenText, "none"),
      File(<<"R", ".", "M", "D">>, TokenText, "none"),
      File(NodeModules \o <<"/", "m", ".", "j", "s">>, TokenText, "none"),
      File(<<"u", ".", "j", "s">>, TokenText, "unreadable"),
      File(<<"s", "r", "c", "/", "l">>, <<>>, "stat_fails") }

Roots == { <<"/", "r">>, <<"/", "r", ".", "g", "i", "t">> }

Repos ==
    { [root |-> r, files |-> fs \cup {ChecklistEntry}] :
        r \in Roots, fs \in {x \in SUBSET FileCatalogue : Cardinality(x) <= MaxFiles} }

\* walk: fs.statSync of an entry that cannot be inspected throws out of walk
WalkThrows(rp) == \E f \in rp.files : f.fault = "stat_fails"

\* ---- the script

InitAudit ==
    /\ bpc = "start"
    /\ checklistFile \in {"missing", "malformed", "ok"}
    /\ checklist = <<>>
    /\ packageObj = NoPackage /\ repo = NoRepo /\ results = <<>>
    /\ hasFail = FALSE /\ exitCode = -1 /\ crashAt = ""
    /\ ReviewIdle /\ FenceIdle

\* an exception nobody catches
Crash(at) ==
    /\ bpc' = "exited"
    /\ exitCode' = UncaughtExit
    /\ crashAt' = at

\* lines 18-24
LoadChecklist ==
    /\ bpc = "start"
    /\ CASE checklistFile = "missing" ->
              /\ bpc' = "exited" /\ exitCode' = ExitMissing
              /\ UNCHANGED <<checklist, crashAt>>
         [] checklistFile = "malformed" ->
              /\ Crash("readJSON checklist")
              /\ UNCHANGED checklist
         [] checklistFile = "ok" ->
              /\ \E doc \in Checklists : checklist' = doc
              /\ bpc' = "package"
              /\ UNCHANGED <<exitCode, crashAt>>
    /\ UNCHANGED <<checklistFile, packageObj, repo, results, hasFail>>
    /\ UNCHANGED <<reviewVars, fenceVars>>

\* lines 40-41
LoadPackage ==
    /\ bpc = "package"
    /\ \E pf \in PackageFiles :
          CASE pf.state = "absent" ->
                 /\ packageObj' = NoPackage
                 /\ bpc' = "test_exists"
                 /\ UNCHANGED <<exitCode, crashAt>>
            [] pf.state = "malformed" ->
                 /\ Crash("readJSON package")
                 /\ UNCHANGED packageObj
            [] OTHER ->
                 /\ packageObj' = [present |-> TRUE, scripts |-> pf.scripts,
                                 devDependencies |-> pf.devDependencies]
                 /\ bpc' = "test_exists"
                 /\ UNCHANGED <<exitCode, crashAt>>
    /\ UNCHANGED <<checklistFile, checklist, repo, results, hasFail>>
    /\ UNCHANGED <<reviewVars, fenceVars>>

Skip(from, to) ==
    /\ bpc = from /\ bpc' = to
    /\ UNCHANGED <<results, hasFail>>

\* lines 43-52
TestExists ==
    /\ bpc = "test_exists"
    /\ \/ /\ ~HasItem(checklist, "test_exists")
          /\ Skip("test_exists", "test_checks")
       \/ /\ HasItem(checklist, "test_exists")
          /\ \E dirs \in BOOLEAN :
               LET hasTests == dirs \/ "test" \in packageObj.scripts
                                    \/ "jest" \in packageObj.devDependencies
               IN IF hasTests
                  THEN /\ results' = Append(results, Verdict("test_exists", "Pass", "Tests folder or test script detected."))
                       /\ UNCHANGED hasFail
                  ELSE /\ results' = Append(results, Verdict("test_exists", "Fail", "No tests detected (no test folder or test script)."))
                       /\ hasFail' = TRUE
          /\ bpc' = "test_checks"
    /\ UNCHANGED <<checklistFile, checklist, packageObj, repo, exitCode, crashAt>>
    /\ UNCHANGED <<reviewVars, fenceVars>>

\* lines 54-75
TestChecks ==
    /\ bpc = "test_checks"
    /\ \/ /\ ~HasItem(checklist, "test_checks")
          /\ Skip("test_checks", "sec_secrets")
       \/ /\ HasItem(checklist, "test_checks")
          /\ packageObj.scripts = {}
          /\ results' = Append(results, Verdict("test_checks", "NeedsAttention", "No package.json scripts to run (skipped)."))
          /\ bpc' = "sec_secrets"
          /\ UNCHANGED hasFail
       \/ /\ HasItem(checklist, "test_checks")
          /\ packageObj.scripts # {}
          /\ bpc' = "sec_secrets"
          /\ IF "lint" \in packageObj.scripts \/ "test" \in packageObj.scripts
             THEN \E exec \in {"ok", "throws"} :
                    IF exec = "throws"
                    THEN /\ results' = Append(results, Verdict("test_checks", "Fail", "Lint/tests failed (see job logs)."))
                         /\ hasFail' = TRUE
                    ELSE /\ results' = Append(results, Verdict("test_checks", "Pass",
                                IF "lint" \in packageObj.scripts THEN "Lint passed." ELSE "Tests passed."))
                         /\ UNCHANGED hasFail
             ELSE /\ results' = Append(results, Verdict("test_checks", "NeedsAttention", "No lint/test script found to run."))
                  /\ UNCHANGED hasFail
    /\ UNCHANGED <<checklistFile, checklist, packageObj, repo, exitCode, crashAt>>
    /\ UNCHANGED <<reviewVars, fenceVars>>

\* lines 77-93
SecSecrets ==
    /\ bpc = "sec_secrets"
    /\ \/ /\ ~HasItem(checklist, "sec_secrets")
          /\ Skip("sec_secrets", "read_format")
          /\ UNCHANGED <<repo, exitCode, crashAt>>
       \/ /\ HasItem(checklist, "sec_secrets")
          /\ \E rp \in Repos :
               /\ repo' = rp
               /\ IF WalkThrows(rp)
                  THEN /\ Crash("sec_secrets")
                       /\ UNCHANGED <<results, hasFail>>
                  ELSE LET suspicious == {f \in rp.files : Suspicious(Join(rp.root, f.path), f)}
                       IN /\ IF suspicious # {}
                             THEN /\ results' = Append(results, Verdict("sec_secrets", "Fail", "Potential secrets found in files: <paths>"))
                                  /\ hasFail' = TRUE
                             ELSE /\ results' = Append(results, Verdict("sec_secrets", "Pass", "No obvious hardcoded secrets found."))
                                  /\ UNCHANGED hasFail
                          /\ bpc' = "read_format"
                          /\ UNCHANGED <<exitCode, crashAt>>
    /\ UNCHANGED <<checklistFile, checklist, packageObj>>
    /\ UNCHANGED <<reviewVars, fenceVars>>

\* lines 95-100
ReadFormat ==
    /\ bpc = "read_format"
    /\ \/ /\ ~HasItem(checklist, "read_format")
          /\ Skip("read_format", "default")
       \/ /\ HasItem(checklist, "read_format")
          /\ \E cfg \in BOOLEAN :
               LET hasFormat == cfg \/ "eslint" \in packageObj.devDependencies
                                    \/ "prettier" \in packageObj.devDependencies
               IN results' = Append(results,
                     IF hasFormat
                     THEN Verdict("read_format", "Pass", "Formatter/linter config detected.")
                     ELSE Verdict("read_format", "NeedsAttention", "No linter/formatter config found (recommend adding ESLint/Prettier)."))
          /\ bpc' = "default"
          /\ UNCHANGED hasFail
    /\ UNCHANGED <<checklistFile, checklist, packageObj, repo, exitCode, crashAt>>
    /\ UNCHANGED <<reviewVars, fenceVars>>

RECURSIVE Flatten(_)
Flatten(doc) == IF doc = <<>> THEN <<>> ELSE Head(doc) \o Flatten(Tail(doc))

\* the two nested loops of lines 103-108 over the items in document order
RECURSIVE DefaultVerdicts(_, _)
DefaultVerdicts(items, res) ==
    IF items = <<>> THEN res
    ELSE LET id == Head(items) IN
         IF id \in KnownIds THEN DefaultVerdicts(Tail(items), res)
         ELSE IF \E i \in DOMAIN res : res[i].id = id
              THEN DefaultVerdicts(Tail(items), res)
              ELSE DefaultVerdicts(Tail(items),
                       Append(res, Verdict(id, "NeedsAttention", "Automated check not available; manual review recommended.")))

\* lines 102-108
DefaultLoop ==
    /\ bpc = "default"
    /\ results' = DefaultVerdicts(Flatten(checklist), results)
    /\ bpc' = "print"
    /\ UNCHANGED <<checklistFile, checklist, packageObj, repo, hasFail, exitCode, crashAt>>
    /\ UNCHANGED <<reviewVars, fenceVars>>

\* lines 110-118: the results are printed and the process exits
PrintAndExit ==
    /\ bpc = "print"
    /\ bpc' = "exited"
    /\ exitCode' = IF hasFail THEN ExitFail ELSE ExitOk
    /\ UNCHANGED <<checklistFile, checklist, packageObj, repo, results, hasFail, crashAt>>
    /\ UNCHANGED <<reviewVars, fenceVars>>

NextAudit ==
    \/ LoadChecklist \/ LoadPackage \/ TestExists \/ TestChecks
    \/ SecSecrets \/ ReadFormat \/ DefaultLoop \/ PrintAndExit

SpecAudit == InitAudit /\ [][NextAudit]_vars

----------------------------------------------------------------------------
\* The interactive reviewer: the handler of ai-code-review.runChecklist

Line(tag) == [tag |-> tag, text |-> <<>>]

Info(msg)     == [kind |-> "info", msg |-> msg]
ErrorMsg(msg) == [kind |-> "error", msg |-> msg]

\* the lines written between createOutputChannel and the call of runLLMReview
Header ==
    << Line("AI Checklist Review"), Line("==================="), Line("File: <filePath>"),
       Line(""), Line("Loaded checklist:"), Line("<checklist>"), Line(""),
       Line("Code preview (first 200 chars):"), Line("<code>"), Line(""),
       Line("Running LLM review...") >>

ResultLine == Line("- [status] (category / priority) id: reason")

RECURSIVE Repeat(_, _)
Repeat(x, n) == IF n <= 0 THEN <<>> ELSE <<x>> \o Repeat(x, n - 1)

\* channel.appendLine('LLM error: ' + String(err))
ErrorLine(err) == [tag |-> "LLM error: Error: " \o err.prefix, text |-> err.text]

Workspaces == {"nofolder", "missing", "malformed", "ok"}
ApiKeys    == {"undefined", "", "sk-key"}

\* A bug to compare with: only an unset variable counts as absent
HasApiKeyDefined(key) == key # "undefined"

\* !apiKey in runLLMReview: unset and empty are both absent
HasApiKey(key) == key \notin {"undefined", ""}

\* A bug to compare with: the read and the parse are not guarded
loadChecklistUnguarded(ws) ==
    CASE ws = "nofolder" -> "null"
      [] ws = "ok"       -> "json"
      [] OTHER           -> "throws"

\* loadChecklist: null, the parsed document, or an exception
loadChecklist(ws) ==
    CASE ws = "nofolder"  -> "null"
      [] ws = "missing"   -> "null"
      [] ws = "malformed" -> "null"
      [] ws = "ok"        -> "json"

Completions == {Wrap(f, s, t) : f \in Forms, s \in Seps, t \in Inners}

Responses ==
    {[kind |-> k, content |-> <<>>] : k \in {"reject", "http_error", "bad_envelope"}}
    \cup {[kind |-> "completion", content |-> c] : c \in Completions}

InitReview ==
    /\ ipc = "idle"
    /\ workspace \in Workspaces
    /\ apiKey \in ApiKeys
    /\ channel = <<>> /\ popups = <<>> /\ fetchCount = 0
    /\ response = [kind |-> "none", content |-> <<>>]
    /\ review = NoReview
    /\ AuditIdle /\ FenceIdle

\* the catch block around runLLMReview
Catch(lines, err) ==
    /\ channel' = lines \o <<ErrorLine(err)>>
    /\ popups' = Append(popups, ErrorMsg("Failed to run LLM review. See output for details."))
    /\ review' = err
    /\ ipc' = "done"

\* the command is invoked, up to the await of loadChecklist
InvokeCommand ==
    /\ ipc = "idle"
    /\ \E editor \in BOOLEAN :
          IF ~editor
          THEN /\ popups' = Append(popups, Info("No active editor"))
               /\ ipc' = "done"
          ELSE /\ ipc' = "loading"
               /\ UNCHANGED popups
    /\ UNCHANGED <<workspace, apiKey, channel, fetchCount, response, review>>
    /\ UNCHANGED <<auditVars, fenceVars>>

\* loadChecklist settles, up to the await of fetch
ChecklistLoaded ==
    /\ ipc = "loading"
    /\ LET cl == loadChecklist(workspace) IN
       CASE cl = "throws" ->
              \* the handler's promise rejects: nothing is shown
              /\ ipc' = "done"
              /\ review' = Thrown("<uncaught>", <<>>)
              /\ UNCHANGED <<channel, popups, fetchCount>>
         [] cl = "null" ->
              /\ popups' = Append(popups, ErrorMsg(".aicodechecklist.json not found in workspace root"))
              /\ ipc' = "done"
              /\ UNCHANGED <<channel, fetchCount, review>>
         [] cl = "json" ->
              IF ~HasApiKey(apiKey)
              THEN /\ Catch(Header, Thrown("OPENAI_API_KEY environment variable not set.", <<>>))
                   /\ UNCHANGED fetchCount
              ELSE /\ channel' = Header
                   /\ fetchCount' = fetchCount + 1
                   /\ ipc' = "awaiting"
                   /\ UNCHANGED <<popups, review>>
    /\ UNCHANGED <<workspace, apiKey, response>>
    /\ UNCHANGED <<auditVars, fenceVars>>

\* the rest of runLLMReview once fetch settles
ReviewOf(resp) ==
    CASE resp.kind = "reject"       -> Thrown("<FetchError>", <<>>)
      [] resp.kind = "http_error"   -> Thrown("OpenAI API error: <status> <text>", <<>>)
      [] resp.kind = "bad_envelope" -> Thrown("<TypeError>", <<>>)
      [] resp.kind = "completion"   -> ParseCompletion(resp.content)

\* fetch settles: the rest of runLLMReview and of the handler
ResponseArrives ==
    /\ ipc = "awaiting"
    /\ \E resp \in Responses :
          /\ response' = resp
          /\ LET r == ReviewOf(resp)
                 shown == channel \o <<Line(""), Line("AI Checklist Results:")>>
             IN CASE r.kind = "error" -> Catch(channel, r)
                  [] r.kind = "value" /\ r.len < 0 ->
                       \* for..of over a value that is not an array throws
                       /\ channel' = shown \o <<ErrorLine(Thrown("<TypeError: results is not iterable>", <<>>))>>
                       /\ popups' = Append(popups, ErrorMsg("Failed to run LLM review. See output for details."))
                       /\ review' = r
                       /\ ipc' = "done"
                  [] OTHER ->
                       /\ channel' = shown \o Repeat(ResultLine, r.len)
                       /\ popups' = Append(popups, Info("AI checklist review completed."))
                       /\ review' = r
                       /\ ipc' = "done"
    /\ UNCHANGED <<workspace, apiKey, fetchCount>>
    /\ UNCHANGED <<auditVars, fenceVars>>

NextReview == InvokeCommand \/ ChecklistLoaded \/ ResponseArrives

SpecReview == InitReview /\ [][NextReview]_vars

----------------------------------------------------------------------------
\* Properties of the interactive reviewer

NoEditorRun == popups # <<>> /\ popups[1] = Info("No active editor")
LastPopupIsError == popups # <<>> /\ popups[Len(popups)].kind = "error"
KeyAbsent == apiKey \in {"undefined", ""}
Lines == {channel[i] : i \in DOMAIN channel}

\* C4: the request to the endpoint is issued at most once in a run, only after
\* the checklist was loaded and the credential found; a run that finds no
\* checklist or no credential ends with an error and no request; a failed
\* response or a parse failure is followed by no further request.
C4_SingleGuardedRequest ==
    /\ fetchCount <= 1
    /\ fetchCount = 1 => workspace = "ok" /\ ~KeyAbsent /\ ipc \in {"awaiting", "done"}
    /\ (ipc = "done" /\ ~NoEditorRun /\ (workspace # "ok" \/ KeyAbsent))
          => fetchCount = 0 /\ LastPopupIsError /\ response.kind = "none"
    /\ (ipc = "done" /\ response.kind # "none") => fetchCount = 1

C4_Witness ==
    /\ ipc = "done" /\ fetchCount = 1
    /\ response.kind = "completion" /\ review.kind = "error"

\* C5 as stated: a run aborted because the checklist file or the credential is
\* missing reports the error and has written nothing to the transcript panel.
C5_NoPartialOutput ==
    (ipc = "done" /\ ~NoEditorRun /\ (workspace = "missing" \/ (workspace = "ok" /\ KeyAbsent)))
        => LastPopupIsError /\ channel = <<>>

\* C5 amended: a run aborted because the checklist file is missing reports the
\* error and has written nothing to the panel; a run aborted because the
\* credential is missing reports the error after the header, the checklist dump,
\* the source preview and the "Running LLM review..." line were written, adds the
\* "LLM error" line, and writes no result line.
C5_NoResultLinesOnAbort ==
    /\ (ipc = "done" /\ ~NoEditorRun /\ workspace = "missing")
          => /\ popups = <<ErrorMsg(".aicodechecklist.json not found in workspace root")>>
             /\ channel = <<>>
    /\ (ipc = "done" /\ ~NoEditorRun /\ workspace = "ok" /\ KeyAbsent)
          => /\ popups = <<ErrorMsg("Failed to run LLM review. See output for details.")>>
             /\ channel = Header \o <<Line("LLM error: Error: OPENAI_API_KEY environment variable not set.")>>
             /\ ResultLine \notin Lines

C5_Witness ==
    /\ ipc = "done" /\ workspace = "ok" /\ apiKey = ""
    /\ Len(channel) = Len(Header) + 1 /\ LastPopupIsError

\* C7: when the completion, after fence stripping, is not valid JSON,
\* runLLMReview throws the parse diagnostic, which carries the completion as the
\* judge returned it; no verdict list is returned, the transcript gets the
\* diagnostic and no result line, and the failure popup is shown.
C7_MalformedNeverSilent ==
    (ipc = "done" /\ response.kind = "completion" /\ ~ValidJSON(StripFence(response.content)))
        => /\ review.kind = "error"
           /\ review.prefix = "Failed to parse LLM JSON: "
           /\ review.text = response.content
           /\ review.val = <<>>
           /\ channel = Header \o <<[tag |-> "LLM error: Error: Failed to parse LLM JSON: ",
                                     text |-> response.content]>>
           /\ ResultLine \notin Lines
           /\ LastPopupIsError

C7_Witness ==
    /\ ipc = "done" /\ response.kind = "completion"
    /\ StartsWith(response.content, FenceJson) /\ EndsWith(response.content, Fence)
    /\ review.kind = "error" /\ review.jsonString # <<>>
    /\ review.jsonString # response.content

----------------------------------------------------------------------------
\* Properties of the parsing step

TolerantForms == {"json", "plain", "none"}
FencedForms   == {"json", "plain", "js", "jsonc"}
OtherTagForms == {"js", "jsonc"}

C8_AnyTagParses ==
    ValidJSON(inner) =>
        \A f \in FencedForms \cap DOMAIN outcome :
            outcome[f].kind = "value" /\ outcome[f].val = JSONParse(inner).val

\* C8 amended: with the json tag or with no tag the fences are removed and the
\* completion parses to the value of the inner text; with another tag (js, jsonc)
\* the tag, or what follows "json" in it, stays in front of the inner text and
\* runLLMReview fails with the parse diagnostic carrying the whole completion.
C8_JsonOrNoTagParses ==
    ValidJSON(inner) =>
        /\ \A f \in {"json", "plain"} \cap DOMAIN outcome :
               outcome[f].kind = "value" /\ outcome[f].val = JSONParse(inner).val
        /\ \A f \in OtherTagForms \cap DOMAIN outcome :
               /\ outcome[f].kind = "error"
               /\ outcome[f].text = Wrap(f, sep, inner)
               /\ outcome[f].jsonString # <<>>
               /\ outcome[f].jsonString[1] \in TagLetters

C8_Witness ==
    /\ ValidJSON(inner)
    /\ FencedForms \subseteq DOMAIN outcome
    /\ outcome["json"].kind = "value" /\ outcome["js"].kind = "error"

----------------------------------------------------------------------------
\* Properties of the batch auditor

ResultIds    == {results[i].id : i \in DOMAIN results}
ChecklistIds == UNION {{checklist[c][i] : i \in DOMAIN checklist[c]} : c \in DOMAIN checklist}
SomeFail     == \E i \in DOMAIN results : results[i].status = "Fail"
Printed      == bpc = "print" \/ (bpc = "exited" /\ checklistFile = "ok" /\ crashAt = "")

\* C1: when the run reaches the printing of the results, the ids of the results
\* are exactly the ids of the items of the checklist, none missing, none added.
C1_Coverage == Printed => ResultIds = ChecklistIds

C1_Witness ==
    /\ Printed /\ Len(checklist) = 2
    /\ checklist[1] = <<"custom_x">> /\ checklist[2] = <<"sec_secrets">>
    /\ Len(results) = 2

\* C2: the run exits with 2 exactly when the checklist file is missing, with 1
\* exactly when some verdict is Fail, and with 0 exactly when the checklist was
\* there and every verdict is Pass or NeedsAttention.
C2_ExitCode ==
    bpc = "exited" =>
        /\ exitCode = ExitMissing <=> checklistFile = "missing"
        /\ exitCode = ExitFail <=> SomeFail
        /\ exitCode = ExitOk <=> (checklistFile # "missing" /\ ~SomeFail)

\* C3: a checklist file that does not parse ends the run as a missing one does,
\* and no exception leaves the loading step (batch auditor: exit code 2;
\* interactive reviewer: the "not found" error and nothing else).
C3_MalformedAsMissing ==
    /\ (bpc = "exited" /\ checklistFile = "malformed")
          => exitCode = ExitMissing /\ crashAt = ""
    /\ (ipc = "done" /\ ~NoEditorRun /\ workspace = "malformed")
          => /\ popups = <<ErrorMsg(".aicodechecklist.json not found in workspace root")>>
             /\ channel = <<>> /\ fetchCount = 0

\* a file inside a node_modules or .git directory below the root
InDirectory(path, dir) == Includes(<<"/">> \o path, <<"/">> \o dir \o <<"/">>)

\* C9: the verdict of sec_secrets is Fail exactly when some file under the root
\* that is neither inside a node_modules or .git directory nor of a skipped
\* extension contains a trigger (the checklist file at the root included), and
\* Pass otherwise.
C9_SecretsVerdict ==
    \A i \in DOMAIN results :
        results[i].id = "sec_secrets" =>
            LET hit == \E f \in repo.files :
                          /\ ~InDirectory(f.path, NodeModules) /\ ~InDirectory(f.path, DotGit)
                          /\ ToLowerCase(ExtName(f.path)) \notin SkippedExts
                          /\ PatternTest(f.text)
            IN results[i].status = (IF hit THEN "Fail" ELSE "Pass")

\* C10: an error raised while a heuristic runs never ends the run: once the
\* checklist and package.json are loaded, the run reaches the printing of the
\* results and exits with a code decided by the verdicts.
C10_HeuristicErrorsIsolated ==
    /\ crashAt \notin KnownIds
    /\ (bpc = "exited" /\ checklistFile = "ok" /\ crashAt # "readJSON package")
          => (crashAt = "" /\ exitCode = (IF SomeFail THEN ExitFail ELSE ExitOk))

====
